---- MODULE Spec2Model ----
(***************************************************************************)
(* User-registration service: POST /users/ (validation, duplicate          *)
(* pre-check, salted hash, insert guarded by the store's unique indexes),  *)
(* GET / and GET /health.  Each request runs on its own database session;  *)
(* the steps of concurrent requests interleave at the database statements. *)
(***************************************************************************)
EXTENDS Integers, Sequences, FiniteSets, TLC

(* ------------------------------ bounds --------------------------------- *)
NumReqs == 2        \* request slots (concurrent HTTP requests)
MaxClock == 1       \* the database clock takes the values 0..MaxClock
NumCalls == 3       \* calls made one after the other (sequential specification)
MaxHashes == 3      \* direct hash_password calls of the hasher specification

(* ------------------------- program constants --------------------------- *)
USERNAME_MIN == 3
USERNAME_MAX == 50
PASSWORD_MIN == 8
PASSWORD_MAX == 100

\* Python's None, and the unset id / created_at of an object not yet flushed.
None == [none |-> TRUE]
NoId == 0
NoTime == -1
Reqs == 1..NumReqs
Calls == 1..NumCalls
Slots == 1..(IF NumCalls > NumReqs THEN NumCalls ELSE NumReqs)

(* ------------------------------ strings -------------------------------- *)
\* A string is a sequence of one-character strings.
Rep(c, n) == [i \in 1..n |-> c]

Lower(c) == IF c = "X" THEN "x" ELSE IF c = "C" THEN "c" ELSE IF c = "B" THEN "b" ELSE c

LowerStr(s) == [i \in 1..Len(s) |-> Lower(s[i])]

Positions(s, c) == {i \in 1..Len(s) : s[i] = c}

(* ------------------------- validation layer ---------------------------- *)
\* local@domain: one "@", a non-empty local part, a domain of at least two
\* non-empty labels separated by dots.
IsEmailShape(e) ==
    /\ Cardinality(Positions(e, "@")) = 1
    /\ LET at == CHOOSE i \in Positions(e, "@") : TRUE
           dom == SubSeq(e, at + 1, Len(e))
       IN  /\ at > 1
           /\ Len(dom) > 0
           /\ Positions(dom, ".") # {}
           /\ dom[1] # "."
           /\ dom[Len(dom)] # "."
           /\ \A i \in 1..(Len(dom) - 1) : ~(dom[i] = "." /\ dom[i + 1] = ".")

\* EmailStr returns the normalized address: the local part as given, the
\* domain in lower case.
EmailStr(e) ==
    LET at == CHOOSE i \in Positions(e, "@") : TRUE
    IN  SubSeq(e, 1, at) \o LowerStr(SubSeq(e, at + 1, Len(e)))

\* Variant: the username bounds are exclusive (min_length/max_length off by one).
ValidationErrors_ExclusiveBounds(body) ==
    (IF Len(body.username) <= USERNAME_MIN \/ Len(body.username) >= USERNAME_MAX
        THEN {"username"} ELSE {})
    \cup (IF ~IsEmailShape(body.email) THEN {"email"} ELSE {})
    \cup (IF Len(body.password) < PASSWORD_MIN \/ Len(body.password) > PASSWORD_MAX
        THEN {"password"} ELSE {})

\* The fields of the request body that violate a rule of UserCreate.
ValidationErrors(body) ==
    (IF Len(body.username) < USERNAME_MIN \/ Len(body.username) > USERNAME_MAX
        THEN {"username"} ELSE {})
    \cup (IF ~IsEmailShape(body.email) THEN {"email"} ELSE {})
    \cup (IF Len(body.password) < PASSWORD_MIN \/ Len(body.password) > PASSWORD_MAX
        THEN {"password"} ELSE {})

\* The validated model handed to the route.
UserCreate(body) ==
    [username |-> body.username, email |-> EmailStr(body.email), password |-> body.password]

\* The response model: these attributes of the ORM object and no others.
UserReadFields == {"id", "username", "email", "created_at"}

\* Variant: the response model serializes every column of the ORM object.
UserRead_AllColumns(u) == u

UserRead(u) == [f \in UserReadFields |-> u[f]]

(* --------------------------- password hasher --------------------------- *)
\* Salted one-way hash: the digest embeds its salt; the hashed part is an
\* injective image of (salt, plaintext).
\* Variant: every call uses the same salt.
hash_password_FixedSalt(p, salt) == [scheme |-> "$2b$", salt |-> 0, hashed |-> <<0, p>>]

hash_password(p, salt) == [scheme |-> "$2b$", salt |-> salt, hashed |-> <<salt, p>>]

verify_password(p, d) == hash_password(p, d.salt) = d

(* ------------------------------ data store ----------------------------- *)
\* Variant: the username lookup filters on the email column.
get_user_by_username_WrongColumn(db, username) ==
    IF \E x \in db : x.email = username
        THEN CHOOSE x \in db : x.email = username
        ELSE None

\* Variant: the username query has no filter and returns the first row.
get_user_by_username_NoFilter(db, username) ==
    IF db # {} THEN CHOOSE x \in db : TRUE ELSE None

get_user_by_username(db, username) ==
    IF \E x \in db : x.username = username
        THEN CHOOSE x \in db : x.username = username
        ELSE None

\* Variant: the email lookup filters on the username column.
get_user_by_email_WrongColumn(db, email) ==
    IF \E x \in db : x.username = email
        THEN CHOOSE x \in db : x.username = email
        ELSE None

get_user_by_email(db, email) ==
    IF \E x \in db : x.email = email
        THEN CHOOSE x \in db : x.email = email
        ELSE None

\* Variant: a users table without unique indexes.
UniqueViolation_NoIndex(db, row) == FALSE

\* Variant: only users.username carries a unique index.
UniqueViolation_UsernameOnly(db, row) ==
    \E x \in db : x.username = row.username

\* Variant: only users.email carries a unique index.
UniqueViolation_EmailOnly(db, row) ==
    \E x \in db : x.email = row.email

\* The unique indexes on users.username and users.email reject the row.
UniqueViolation(db, row) ==
    \E x \in db : x.username = row.username \/ x.email = row.email

\* Variant: the failed INSERT stays in the table.
rollback_RowKept(db, row) == db \cup {row}

\* db.rollback() after the IntegrityError: the pending row is discarded.
rollback(db, row) == db

(* ------------------------------- inputs -------------------------------- *)
bob == <<"b", "o", "b">>
eve == <<"e", "v", "e">>
al == <<"a", "l">>
bAtXc == <<"b", "@", "x", ".", "c">>
bAtUpperXc == <<"b", "@", "X", ".", "c">>
eAtXc == <<"e", "@", "x", ".", "c">>
notAnEmail == <<"b", "x", ".", "c">>
pw8 == Rep("p", 8)
qw8 == Rep("q", 8)
pw7 == Rep("p", 7)

Body(u, e, p) == [username |-> u, email |-> e, password |-> p]

\* Request bodies of the concurrent specification.
Inputs ==
    { Body(bob, bAtXc, pw8),
      Body(bob, eAtXc, qw8),
      Body(eve, bAtUpperXc, pw8),
      Body(eve, eAtXc, pw8),
      Body(al, notAnEmail, pw7) }

(* ------------------------------- state --------------------------------- *)
VARIABLES
    users,          \* committed rows of the users table
    nextId,         \* next value of the users.id sequence
    now,            \* database clock (func.now())
    nextSalt,       \* salts handed out so far (a fresh salt per hash call)
    pc,             \* per request: position in its handler
    req,            \* per request: the JSON body received
    user,           \* per request: the validated UserCreate
    existing_user,  \* per request: result of the username lookup
    existing_email, \* per request: result of the email lookup
    db_user,        \* per request: the ORM object built by create_user
    result,         \* per request: the HTTP response
    hashes,         \* hasher specification: <<plaintext, digest>> of each call
    verified        \* hasher specification: the last verify_password call

vars == <<users, nextId, now, nextSalt, pc, req, user, existing_user,
          existing_email, db_user, result, hashes, verified>>

storeVars == <<users, nextId, now>>
hashVars == <<hashes, verified>>
locals == <<req, user, existing_user, existing_email, db_user>>

Init ==
    /\ users = {}
    /\ nextId = 1
    /\ now = 0
    /\ nextSalt = 1
    /\ pc = [r \in Slots |-> "idle"]
    /\ req = [r \in Slots |-> None]
    /\ user = [r \in Slots |-> None]
    /\ existing_user = [r \in Slots |-> None]
    /\ existing_email = [r \in Slots |-> None]
    /\ db_user = [r \in Slots |-> None]
    /\ result = [r \in Slots |-> None]
    /\ hashes = <<>>
    /\ verified = None

(* ------------------------------ responses ------------------------------ *)
Created(u) == [status |-> 201, body |-> UserRead(u)]
BadRequest(detail) == [status |-> 400, detail |-> detail]
Unprocessable(fields) == [status |-> 422, detail |-> fields]
Ok(body) == [status |-> 200, body |-> body]

USERNAME_TAKEN == "Username already registered"
EMAIL_TAKEN == "Email already registered"
ALREADY_EXISTS == "Username or email already exists"

(* ------------------------------- actions ------------------------------- *)
\* GET /
read_root(r) ==
    /\ pc[r] = "idle"
    /\ pc' = [pc EXCEPT ![r] = "done"]
    /\ result' = [result EXCEPT ![r] = Ok("Welcome to User Management API")]
    /\ UNCHANGED <<storeVars, nextSalt, locals, hashVars>>

\* GET /health
health_check(r) ==
    /\ pc[r] = "idle"
    /\ pc' = [pc EXCEPT ![r] = "done"]
    /\ result' = [result EXCEPT ![r] = Ok("healthy")]
    /\ UNCHANGED <<storeVars, nextSalt, locals, hashVars>>

\* POST /users/ arrives: the body is validated against UserCreate before the
\* route function runs; a violation ends the request with 422.
Receive(r, body) ==
    /\ pc[r] = "idle"
    /\ req' = [req EXCEPT ![r] = body]
    /\ IF ValidationErrors(body) # {}
          THEN /\ result' = [result EXCEPT ![r] = Unprocessable(ValidationErrors(body))]
               /\ pc' = [pc EXCEPT ![r] = "done"]
               /\ UNCHANGED user
          ELSE /\ user' = [user EXCEPT ![r] = UserCreate(body)]
               /\ pc' = [pc EXCEPT ![r] = "lookup_username"]
               /\ UNCHANGED result
    /\ UNCHANGED <<storeVars, nextSalt, existing_user, existing_email, db_user, hashVars>>

post_users(r) == \E body \in Inputs : Receive(r, body)

\* existing_user = get_user_by_username(db, user.username)
LookupUsername(r) ==
    /\ pc[r] = "lookup_username"
    /\ LET found == get_user_by_username(users, user[r].username)
       IN  /\ existing_user' = [existing_user EXCEPT ![r] = found]
           /\ IF found # None
                 THEN /\ result' = [result EXCEPT ![r] = BadRequest(USERNAME_TAKEN)]
                      /\ pc' = [pc EXCEPT ![r] = "done"]
                 ELSE /\ pc' = [pc EXCEPT ![r] = "lookup_email"]
                      /\ UNCHANGED result
    /\ UNCHANGED <<storeVars, nextSalt, req, user, existing_email, db_user, hashVars>>

\* existing_email = get_user_by_email(db, user.email)
LookupEmail(r) ==
    /\ pc[r] = "lookup_email"
    /\ LET found == get_user_by_email(users, user[r].email)
       IN  /\ existing_email' = [existing_email EXCEPT ![r] = found]
           /\ IF found # None
                 THEN /\ result' = [result EXCEPT ![r] = BadRequest(EMAIL_TAKEN)]
                      /\ pc' = [pc EXCEPT ![r] = "done"]
                 ELSE /\ pc' = [pc EXCEPT ![r] = "create_user"]
                      /\ UNCHANGED result
    /\ UNCHANGED <<storeVars, nextSalt, req, user, existing_user, db_user, hashVars>>

\* create_user, first half: hash the password and build the User object.
BuildUser(r) ==
    /\ pc[r] = "create_user"
    /\ db_user' = [db_user EXCEPT ![r] =
            [id |-> NoId, username |-> user[r].username, email |-> user[r].email,
             password_hash |-> hash_password(user[r].password, nextSalt),
             created_at |-> NoTime]]
    /\ nextSalt' = nextSalt + 1
    /\ pc' = [pc EXCEPT ![r] = "commit"]
    /\ UNCHANGED <<storeVars, req, user, existing_user, existing_email, result, hashVars>>

\* Variant: the route starts over after an IntegrityError.
Commit_Retry(r) ==
    /\ pc[r] = "commit"
    /\ IF UniqueViolation(users, db_user[r])
          THEN /\ nextId' \in {nextId, nextId + 1}
               /\ users' = rollback(users, [db_user[r] EXCEPT !.id = nextId, !.created_at = now])
               /\ pc' = [pc EXCEPT ![r] = "lookup_username"]
               /\ UNCHANGED <<now, db_user, result>>
          ELSE /\ \E t \in now..MaxClock :
                    /\ now' = t
                    /\ users' = users \cup
                          {[db_user[r] EXCEPT !.id = nextId, !.created_at = t]}
               /\ nextId' = nextId + 1
               /\ db_user' = [db_user EXCEPT ![r].id = nextId]
               /\ pc' = [pc EXCEPT ![r] = "refresh"]
               /\ UNCHANGED result
    /\ UNCHANGED <<nextSalt, req, user, existing_user, existing_email, hashVars>>

\* create_user, second half: db.add + db.commit.  The INSERT either violates
\* a unique index (IntegrityError: rollback, and the route answers 400) or
\* commits the row with the id and created_at the database assigns.
Commit(r) ==
    /\ pc[r] = "commit"
    /\ IF UniqueViolation(users, db_user[r])
          THEN /\ nextId' \in {nextId, nextId + 1}
               /\ users' = rollback(users, [db_user[r] EXCEPT !.id = nextId, !.created_at = now])
               /\ result' = [result EXCEPT ![r] = BadRequest(ALREADY_EXISTS)]
               /\ pc' = [pc EXCEPT ![r] = "done"]
               /\ UNCHANGED <<now, db_user>>
          ELSE /\ \E t \in now..MaxClock :
                    /\ now' = t
                    /\ users' = users \cup
                          {[db_user[r] EXCEPT !.id = nextId, !.created_at = t]}
               /\ nextId' = nextId + 1
               /\ db_user' = [db_user EXCEPT ![r].id = nextId]
               /\ pc' = [pc EXCEPT ![r] = "refresh"]
               /\ UNCHANGED result
    /\ UNCHANGED <<nextSalt, req, user, existing_user, existing_email, hashVars>>

\* db.refresh(db_user); return db_user, serialized through UserRead.
RefreshReturn(r) ==
    /\ pc[r] = "refresh"
    /\ LET row == CHOOSE x \in users : x.id = db_user[r].id
       IN  /\ db_user' = [db_user EXCEPT ![r] = row]
           /\ result' = [result EXCEPT ![r] = Created(row)]
    /\ pc' = [pc EXCEPT ![r] = "done"]
    /\ UNCHANGED <<storeVars, nextSalt, req, user, existing_user, existing_email, hashVars>>

Step(r) ==
    \/ LookupUsername(r)
    \/ LookupEmail(r)
    \/ BuildUser(r)
    \/ Commit(r)
    \/ RefreshReturn(r)

Next ==
    \E r \in Reqs :
        \/ read_root(r)
        \/ health_check(r)
        \/ post_users(r)
        \/ Step(r)

Spec == Init /\ [][Next]_vars

\* The handler of a request runs to completion once the request has arrived.
FairSpec == Spec /\ \A r \in Reqs : WF_vars(Step(r))

(* ----------------------- sequential registration ----------------------- *)
\* Calls made one after the other: slot r is used once every earlier slot
\* has its response.
Quiet(r) == \A q \in 1..(r - 1) : pc[q] = "done"

NextSeq ==
    \E r \in Calls :
        \/ Quiet(r) /\ read_root(r)
        \/ Quiet(r) /\ health_check(r)
        \/ Quiet(r) /\ post_users(r)
        \/ Step(r)

SpecSeq == Init /\ [][NextSeq]_vars

(* ------------------------- validation boundaries ----------------------- *)
bAtXDotDotC == <<"b", "@", "x", ".", ".", "c">>
bAtXc2 == <<"b", "@", "x", "c">>

BoundaryUsernames == {Rep("a", 2), Rep("a", 3), Rep("a", 50), Rep("a", 51)}
BoundaryPasswords == {Rep("p", 7), Rep("p", 8), Rep("p", 100), Rep("p", 101)}
BoundaryEmails == {bAtXc, notAnEmail, bAtXc2, bAtXDotDotC}

BoundaryInputs ==
    {Body(u, e, p) : u \in BoundaryUsernames, e \in BoundaryEmails, p \in BoundaryPasswords}

post_users_boundary(r) == \E body \in BoundaryInputs : Receive(r, body)

NextVal ==
    \E r \in Reqs :
        \/ Quiet(r) /\ post_users_boundary(r)
        \/ Step(r)

SpecVal == Init /\ [][NextVal]_vars

(* --------------------------- hasher on its own -------------------------- *)
Plaintexts == {pw8, qw8, pw7}

HashCall(p) ==
    /\ Len(hashes) < MaxHashes
    /\ hashes' = Append(hashes, [plaintext |-> p, digest |-> hash_password(p, nextSalt)])
    /\ nextSalt' = nextSalt + 1
    /\ UNCHANGED <<storeVars, pc, locals, result, verified>>

VerifyCall(p, i) ==
    /\ verified' = [plaintext |-> p, index |-> i,
                    ok |-> verify_password(p, hashes[i].digest)]
    /\ UNCHANGED <<storeVars, nextSalt, pc, locals, result, hashes>>

NextHash ==
    \/ \E p \in Plaintexts : HashCall(p)
    \/ \E p \in Plaintexts, i \in 1..Len(hashes) : VerifyCall(p, i)

SpecHash == Init /\ [][NextHash]_vars

(* ------------------------------ properties ----------------------------- *)
IsPost(r) == req[r] # None
IsValidPost(r) == IsPost(r) /\ ValidationErrors(req[r]) = {}
Done(r) == pc[r] = "done"

\* Request q submitted a valid body whose username or (normalized) email
\* equals that of request r.
Collides(q, r) ==
    /\ IsValidPost(q)
    /\ \/ req[q].username = req[r].username
       \/ EmailStr(req[q].email) = EmailStr(req[r].email)

\* C1: two concurrent registrations with the same valid triple, with no other
\* request competing for the username or the email: once both have answered,
\* exactly one answered 201 and the other 400.
C1_ExactlyOneSucceeds ==
    \A r1, r2 \in Reqs :
        ( /\ r1 # r2
          /\ Done(r1) /\ Done(r2)
          /\ IsValidPost(r1)
          /\ req[r1] = req[r2]
          /\ \A q \in Reqs \ {r1, r2} : ~Collides(q, r1) )
        => {result[r1].status, result[r2].status} = {201, 400}

\* The two identical requests raced: both passed the pre-check, one committed,
\* the other was rejected by the store.
C1_Witness ==
    \E r1, r2 \in Reqs :
        /\ r1 # r2
        /\ Done(r1) /\ Done(r2)
        /\ IsValidPost(r1)
        /\ req[r1] = req[r2]
        /\ result[r1].status = 201
        /\ result[r2] = BadRequest(ALREADY_EXISTS)

\* C2: no two stored user records share a username, and no two share an email.
C2_UniqueUsernameAndEmail ==
    \A x, y \in users :
        x # y => (x.username # y.username /\ x.email # y.email)

\* A request sharing only the email with a stored record passed the pre-check
\* and was rejected by the store at insert.
C2_Witness ==
    \E r \in Reqs : \E x \in users :
        /\ result[r] = BadRequest(ALREADY_EXISTS)
        /\ x.email = user[r].email
        /\ x.username # user[r].username

\* The rows stored by the calls that answered before call r was made
\* (sequential specification).
Prior(r) ==
    {x \in users : \E q \in 1..(r - 1) : result[q].status = 201 /\ result[q].body.id = x.id}

\* An earlier call registered successfully with the username / the email of call r.
EarlierSameUsername(r) ==
    \E q \in 1..(r - 1) :
        IsValidPost(q) /\ result[q].status = 201 /\ req[q].username = req[r].username

EarlierSameEmail(r) ==
    \E q \in 1..(r - 1) :
        IsValidPost(q) /\ result[q].status = 201 /\ req[q].email = req[r].email

UsernameStored(db, r) == \E x \in db : x.username = req[r].username
EmailStored(db, r) == \E x \in db : x.email = EmailStr(req[r].email)

\* A valid triple registers when the store holds neither its username nor its
\* email, and no triple registers twice.
SucceedsExactlyOnce ==
    /\ \A r \in Calls :
          (Done(r) /\ IsValidPost(r) /\ ~UsernameStored(Prior(r), r) /\ ~EmailStored(Prior(r), r))
          => result[r].status = 201
    /\ \A q, r \in Calls :
          (q < r /\ Done(r) /\ IsValidPost(q) /\ req[q] = req[r] /\ result[q].status = 201)
          => result[r].status = 400

SameUsernameFails ==
    \A r \in Calls :
        (Done(r) /\ IsValidPost(r) /\ EarlierSameUsername(r))
        => result[r] = BadRequest(USERNAME_TAKEN)

\* C3 as stated: sequential registration of a valid triple succeeds exactly
\* once; a later call with the same username (any email) gets the username
\* error; a later call with the same email and ANY username gets the email
\* error.
C3_AsStated ==
    /\ SucceedsExactlyOnce
    /\ SameUsernameFails
    /\ \A r \in Calls :
          (Done(r) /\ IsValidPost(r) /\ EarlierSameEmail(r))
          => result[r] = BadRequest(EMAIL_TAKEN)

\* C3 amended: as stated, but the email error is the answer only when the
\* later call's username is not registered; when the username is registered
\* too, the answer is the username error.
C3_SequentialDuplicates ==
    /\ SucceedsExactlyOnce
    /\ SameUsernameFails
    /\ \A r \in Calls :
          (Done(r) /\ IsValidPost(r) /\ EarlierSameEmail(r))
          => result[r] = IF UsernameStored(Prior(r), r)
                            THEN BadRequest(USERNAME_TAKEN)
                            ELSE BadRequest(EMAIL_TAKEN)

\* A call got the email error, another the username error although its email
\* was registered as well.
C3_Witness ==
    /\ \E r \in Calls : Done(r) /\ IsValidPost(r) /\ EarlierSameEmail(r)
                        /\ result[r] = BadRequest(EMAIL_TAKEN)
    /\ \E r \in Calls : Done(r) /\ IsValidPost(r) /\ EarlierSameEmail(r)
                        /\ result[r] = BadRequest(USERNAME_TAKEN)

\* The fields of a body that break the rules of the validation layer:
\* username length in [3, 50], password length in [8, 100], email shape.
ViolatedFields(body) ==
    {f \in {"username", "email", "password"} :
        \/ f = "username" /\ ~(Len(body.username) \in 3..50)
        \/ f = "password" /\ ~(Len(body.password) \in 8..100)
        \/ f = "email" /\ ~IsEmailShape(body.email)}

Rejected(r) == IsPost(r) /\ result[r] # None /\ result[r].status = 422

C4_Outcome ==
    \A r \in Reqs :
        IsPost(r) =>
            IF ViolatedFields(req[r]) # {}
               THEN /\ result[r] = Unprocessable(ViolatedFields(req[r]))
                    /\ Done(r)
                    /\ user[r] = None
                    /\ existing_user[r] = None
                    /\ existing_email[r] = None
                    /\ db_user[r] = None
               ELSE ~Rejected(r)

C4_NoStoreAccess ==
    \A r \in Reqs :
        Rejected(r)' =>
            IF Rejected(r)
               THEN UNCHANGED <<pc[r], result[r], user[r], existing_user[r],
                                existing_email[r], db_user[r]>>
               ELSE UNCHANGED <<users, nextId, now, nextSalt>>

\* C4: a registration is answered 422 exactly when a field breaks its rule;
\* the error names every violated field; the rejected request does no lookup
\* and no insert, neither when it is rejected nor later, and the step that
\* rejects it leaves the store unchanged.
C4_ValidationRejects == []C4_Outcome /\ [][C4_NoStoreAccess]_vars

\* With a record stored by a request at the upper bounds (username 50,
\* password 100), a request with a username of length 51 is rejected naming
\* only the username.
C4_Witness ==
    \E r1, r2 \in Reqs :
        /\ IsPost(r1) /\ Len(req[r1].username) = 50 /\ Len(req[r1].password) = 100
        /\ result[r1] # None /\ result[r1].status = 201
        /\ IsPost(r2) /\ Len(req[r2].username) = 51
        /\ result[r2] = Unprocessable({"username"})
        /\ users # {}

Succeeded(r) == IsPost(r) /\ result[r] # None /\ result[r].status = 201

\* The row the store holds for request r.
StoredFor(r) == CHOOSE x \in users : x.id = db_user[r].id

\* The response body has exactly the fields id, username, email, created_at,
\* with the values of the row stored for the request.
ViewOfStoredRow(r) ==
    /\ DOMAIN result[r].body = {"id", "username", "email", "created_at"}
    /\ \E x \in users : x.id = db_user[r].id
    /\ \A f \in DOMAIN result[r].body : result[r].body[f] = StoredFor(r)[f]
    /\ result[r].body.username = req[r].username

\* The address with its domain in lower case.
DomainLowered(e) ==
    [i \in 1..Len(e) |->
        IF \E k \in 1..(i - 1) : e[k] = "@" THEN Lower(e[i]) ELSE e[i]]

\* C5 as stated: the response is the id, username, email, created_at of the
\* stored row, and its username and email are the submitted values.
C5_AsStated ==
    \A r \in Reqs :
        Succeeded(r) => (ViewOfStoredRow(r) /\ result[r].body.email = req[r].email)

\* C5 amended: the response is the id, username, email, created_at of the
\* stored row and nothing else (no password, no password_hash); its username
\* is the submitted one and its email is the submitted address as normalized
\* by validation (domain in lower case).
C5_ResponseView ==
    \A r \in Reqs :
        Succeeded(r) =>
            (ViewOfStoredRow(r) /\ result[r].body.email = DomainLowered(req[r].email))

\* A registration submitted with an upper-case domain succeeded.
C5_Witness ==
    \E r \in Reqs :
        /\ Succeeded(r)
        /\ req[r].email = bAtUpperXc
        /\ result[r].body.email = bAtXc
        /\ StoredFor(r).password_hash # None

\* The store holds a row with the username or the email of request r.
ConflictStored(r) ==
    \E x \in users : x.username = user[r].username \/ x.email = user[r].email

\* C6: a request whose two lookups found nothing and whose insert meets a
\* conflicting row ends with the generic 400 "Username or email already
\* exists"; the store after the failed insert holds exactly the rows it held
\* before.
C6_RaceGenericError ==
    [][\A r \in Reqs :
          ( /\ pc[r] = "commit" /\ pc'[r] # "commit"
            /\ existing_user[r] = None /\ existing_email[r] = None
            /\ ConflictStored(r) )
          => /\ result'[r] = [status |-> 400, detail |-> "Username or email already exists"]
             /\ pc'[r] = "done"
             /\ users' = users]_vars

\* A request passed both lookups and was then rejected at insert because
\* another request had committed its email in between.
C6_Witness ==
    \E r \in Reqs :
        /\ Done(r)
        /\ result[r] = BadRequest(ALREADY_EXISTS)
        /\ existing_user[r] = None /\ existing_email[r] = None
        /\ \E x \in users : x.email = user[r].email /\ x.password_hash # db_user[r].password_hash

HashIndexes == 1..Len(hashes)

\* C7: verify(p, d) is true exactly when p is the plaintext d was hashed
\* from; two hash calls on the same plaintext give different digests, and
\* the equivalence holds for each of them.
C7_VerifyIffSamePlaintext ==
    /\ \A i \in HashIndexes : \A p \in Plaintexts :
          verify_password(p, hashes[i].digest) <=> (p = hashes[i].plaintext)
    /\ verified # None =>
          (verified.ok <=> (verified.plaintext = hashes[verified.index].plaintext))
    /\ \A i, j \in HashIndexes :
          (i # j /\ hashes[i].plaintext = hashes[j].plaintext)
          => hashes[i].digest # hashes[j].digest

\* The same plaintext was hashed twice, and the second digest was verified
\* against it; a third digest is of another plaintext.
C7_Witness ==
    \E i, j, k \in HashIndexes :
        /\ i < j
        /\ hashes[i].plaintext = hashes[j].plaintext
        /\ hashes[i].digest # hashes[j].digest
        /\ hashes[k].plaintext # hashes[i].plaintext
        /\ verified # None /\ verified.index = j /\ verified.ok

\* The step commits the row of request r.
Inserts(r) ==
    /\ pc[r] = "commit" /\ pc'[r] = "refresh"
    /\ \E x \in users' \ users :
          /\ users' = users \cup {x}
          /\ x.username = user[r].username /\ x.email = user[r].email

\* Every stored row belongs to a request that is about to answer, or has
\* answered, 201.
RowsOfSuccesses ==
    \A x \in users :
        \E r \in Reqs :
            /\ pc[r] \in {"refresh", "done"}
            /\ db_user[r] # None /\ db_user[r].id = x.id
            /\ Done(r) => Succeeded(r)

\* C8: the store is append-only.  A stored row stays, unchanged; a row is
\* added only by the commit of a registration that then answers 201; a
\* request answering anything else (GET /, GET /health, 400, 422) leaves the
\* store unchanged.
C8_AppendOnly ==
    /\ [][ /\ users \subseteq users'
           /\ users' # users => \E r \in Reqs : Inserts(r)
           /\ \A r \in Reqs :
                 (pc[r] # "done" /\ pc'[r] = "done") => users' = users ]_vars
    /\ []RowsOfSuccesses

\* The store holds one row although two inserts were attempted: the failed
\* one drew an id from the sequence and left nothing behind.
C8_Witness ==
    /\ Cardinality(users) = 1
    /\ nextId = 3
    /\ \E r \in Reqs : Done(r) /\ result[r] = BadRequest(ALREADY_EXISTS)
    /\ \E r \in Reqs : Done(r) /\ Succeeded(r) /\ StoredFor(r) \in users

\* C9: the username is looked up first, the email second.  The username
\* lookup answers "Username already registered" exactly when a row with the
\* username is visible (whatever the email); the email lookup, reached only
\* after a username lookup that found nothing, answers "Email already
\* registered" exactly when a row with the email is visible; hashing and
\* inserting are reached only when both lookups found nothing.
C9_Step ==
    \A r \in Reqs :
        /\ (pc[r] = "idle" /\ pc'[r] # "idle") => pc'[r] \in {"done", "lookup_username"}
        /\ (pc[r] = "lookup_username" /\ pc'[r] # "lookup_username") =>
              IF \E x \in users : x.username = user[r].username
                 THEN result'[r] = [status |-> 400, detail |-> "Username already registered"]
                      /\ pc'[r] = "done"
                 ELSE result'[r] = None /\ pc'[r] = "lookup_email"
        /\ (pc[r] = "lookup_email" /\ pc'[r] # "lookup_email") =>
              IF \E x \in users : x.email = user[r].email
                 THEN result'[r] = [status |-> 400, detail |-> "Email already registered"]
                      /\ pc'[r] = "done"
                 ELSE result'[r] = None /\ pc'[r] = "create_user"
        /\ (pc[r] # "lookup_email" /\ pc'[r] = "lookup_email") => pc[r] = "lookup_username"
        /\ (pc[r] # "create_user" /\ pc'[r] = "create_user") => pc[r] = "lookup_email"

C9_Lookups ==
    \A r \in Reqs :
        /\ (result[r] # None /\ result[r] = BadRequest(USERNAME_TAKEN))
              => existing_user[r] # None
        /\ (result[r] # None /\ result[r] = BadRequest(EMAIL_TAKEN))
              => (existing_user[r] = None /\ existing_email[r] # None)
        /\ pc[r] \in {"create_user", "commit", "refresh"}
              => (existing_user[r] = None /\ existing_email[r] = None)

C9_PreCheckOrder == [][C9_Step]_vars /\ []C9_Lookups

\* A request whose username and email are both registered got the username
\* error.
C9_Witness ==
    \E r \in Reqs :
        /\ Done(r) /\ IsValidPost(r)
        /\ result[r] = BadRequest(USERNAME_TAKEN)
        /\ \E x \in users : x.username = user[r].username
        /\ \E y \in users : y.email = user[r].email

Rank(l) ==
    CASE l = "idle" -> 0
      [] l = "lookup_username" -> 1
      [] l = "lookup_email" -> 2
      [] l = "create_user" -> 3
      [] l = "commit" -> 4
      [] l = "refresh" -> 5
      [] l = "done" -> 6

\* C10: a request only moves forward through its handler, so it does each
\* lookup and the insert at most once and never retries after a duplicate;
\* its answer, once given, stays; a registration that has arrived eventually
\* answers, with 201, 400 or 422.
C10_NoRetryAndTerminates ==
    /\ [][\A r \in Reqs :
             /\ pc'[r] # pc[r] => Rank(pc'[r]) > Rank(pc[r])
             /\ Done(r) => (pc'[r] = "done" /\ result'[r] = result[r])]_vars
    /\ [](\A r \in Reqs : (Done(r) /\ IsPost(r)) => result[r].status \in {201, 400, 422})
    /\ \A r \in Reqs : (pc[r] # "idle") ~> Done(r)

\* All three terminal outcomes of a registration, the 400 one from the insert.
C10_Witness ==
    \E r1, r2 \in Reqs :
        /\ Done(r1) /\ Done(r2)
        /\ IsPost(r1) /\ result[r1].status = 201
        /\ IsPost(r2) /\ result[r2] = BadRequest(ALREADY_EXISTS)

\* Row x was committed by request q.
CreatedBy(x, q) ==
    /\ pc[q] \in {"refresh", "done"}
    /\ db_user[q] # None
    /\ db_user[q].id = x.id

\* The rows holding the username and the (validated) email of request r.
RowsOf(r) ==
    {x \in users : x.username = user[r].username /\ x.email = user[r].email}

====
